---------------------------- MODULE Spec2Model ----------------------------
(***************************************************************************)
(* Model of lib/sdk/panel/utils.js: the arrow panel node, its two content  *)
(* frames, the popup container of each browser document, the global event  *)
(* bus and the timer queue.  Host objects (DOM, popup manager, frame       *)
(* loaders, observer service) appear as the state their calls read or      *)
(* write.  Every operation leaves in `last' the operation that ran and the *)
(* host calls it made, in the order it made them.                          *)
(***************************************************************************)
EXTENDS Integers, Sequences, FiniteSets, TLC

\* ------------------------------------------------------------- bounds
MaxPending == 2
MaxStyleNodes == 2
MaxCoord == 3

\* ---------------------------------------------------------- universes
Null == "null"
Throw == "TypeError"
Panels == {1, 2}
\* Browser window documents; each holds one container, #mainPopupSet,
\* which the model identifies with its document.
Docs == {"d1", "d2"}
\* Anchor elements: a1 lives in the browser window of d2, a2 in a window
\* that getOwnerBrowserWindow does not recognise.
Anchors == {"a1", "a2"}
Widths == {100, 200}
Heights == {50}
\* open's arguments, as setTimeout carries them
OpenArgs == [panel : Panels, width : Widths, height : Heights,
             anchor : Anchors \cup {Null}]
\* The two frame loaders make creates for panel p, named by their document:
\* <<p, 0>> starts in the background frame, <<p, 1>> in the view frame.
\* <<0, 0>> is a document of neither (a nested or unrelated one).
OtherDoc == <<0, 0>>
ContentDocs == (Panels \X {0, 1}) \cup {OtherDoc}
\* The two frame elements of a panel: backgroundFrame, in the add-on's
\* hidden window, and viewFrame, the panel's first and only child
Frames == {"bg", "view"}
\* frameOptions.uri, the src both frames are created with, and the URLs
\* setURL is called with
\* the size of a frame whose style sets none
Unset == [width |-> 0, height |-> 0]
DataURI == "data:text/plain;charset=utf-8,"
URLs == {"u1", "u2"}

VARIABLES
  nPanels,          \* panels 1..nPanels have been returned by make
  parentNode,       \* panel.parentNode: a container or Null
  children,         \* container -> sequence of its child panels
  ownerDocument,    \* panel.ownerDocument
  mostRecent,       \* getMostRecentBrowserWindow().document
  openPopup,        \* the XBL binding of the panel is constructed
  state,            \* panel.state: closed, showing, open, hiding
  pending,          \* what the popup manager does next for the panel
  backgroundFrame,  \* panel.backgroundFrame: "bg" or Null
  swapped,          \* the two frames hold each other's loader
  listeners,        \* handlers registered for document-element-inserted
  timers,           \* pending setTimeout(open, 50, ...) calls, first due first
  styleNodes,       \* content document -> its #sdk-panel-style nodes
  frameSize,        \* frame.style.width and .height in px, Unset at first
  src,              \* the src attribute of each frame
  geom,             \* anchor rectangle, window and screen geometry
  last              \* the last operation and the host calls it made

vars == <<nPanels, parentNode, children, ownerDocument, mostRecent, openPopup,
          state, pending, backgroundFrame, swapped, listeners, timers,
          styleNodes, frameSize, src, geom, last>>

made(p) == p <= nPanels

\* ---------------------------------------------------------------- DOM
\* The part of the state an operation rewrites, with the host calls it
\* made so far in ops.
World ==
  [parentNode |-> parentNode, children |-> children,
   ownerDocument |-> ownerDocument, timers |-> timers, state |-> state,
   pending |-> pending, swapped |-> swapped, styleNodes |-> styleNodes,
   frameSize |-> frameSize, src |-> src, ops |-> <<>>]

RECURSIVE Without(_, _)
Without(s, p) ==
  IF s = <<>> THEN <<>>
  ELSE IF Head(s) = p THEN Without(Tail(s), p)
       ELSE <<Head(s)>> \o Without(Tail(s), p)

RECURSIVE Count(_, _)
Count(s, p) ==
  IF s = <<>> THEN 0
  ELSE (IF Head(s) = p THEN 1 ELSE 0) + Count(Tail(s), p)

\* parent.removeChild(panel)
removeChild(t, parent, p) ==
  [t EXCEPT !.parentNode[p] = Null,
            !.children[parent] = Without(@, p),
            !.ops = Append(@, [kind |-> "removeChild", node |-> parent,
                               panel |-> p])]

\* container.appendChild(panel): the DOM moves a node that still has a
\* parent, and the node takes the container's document as its owner
appendChild(t, container, p) ==
  LET old == t.parentNode[p]
      u == IF old = Null THEN t
           ELSE [t EXCEPT !.children[old] = Without(@, p)]
  IN [u EXCEPT !.parentNode[p] = container,
               !.children[container] = Append(@, p),
               !.ownerDocument[p] = container,
               !.ops = Append(@, [kind |-> "appendChild", node |-> container,
                                  panel |-> p])]

detach(t, p) ==
  IF t.parentNode[p] # Null THEN removeChild(t, t.parentNode[p], p) ELSE t

\* attach with its test the wrong way round
attachInverted(t, p, document) ==
  LET doc == IF document = Null THEN mostRecent ELSE document
      container == doc
  IN IF container = t.parentNode[p]
     THEN appendChild(detach(t, p), doc, p)
     ELSE t

\* attach without its test
attachAlways(t, p, document) ==
  LET doc == IF document = Null THEN mostRecent ELSE document
  IN appendChild(detach(t, p), doc, p)

attach(t, p, document) ==
  LET doc == IF document = Null THEN mostRecent ELSE document
      container == doc
  IN IF container # t.parentNode[p]
     THEN appendChild(detach(t, p), doc, p)
     ELSE t

\* ------------------------------------------------------------- frames
\* isOpen that counts a popup on its way up as open
isOpenOrShowing(t, p) == t.state[p] \in {"open", "showing"}

isOpen(t, p) == t.state[p] = "open"

\* getContentFrame that answers with the view frame from popupshowing on
getContentFrameEarly(t, p) ==
  IF t.state[p] \in {"open", "showing"} THEN "view" ELSE backgroundFrame[p]

\* panel.firstChild is the view frame
getContentFrame(t, p) ==
  IF isOpen(t, p) THEN "view" ELSE backgroundFrame[p]

\* frame.contentDocument: the document of the loader the frame holds
contentDocument(t, p, frame) ==
  IF frame = "bg" THEN <<p, IF t.swapped[p] THEN 1 ELSE 0>>
  ELSE <<p, IF t.swapped[p] THEN 0 ELSE 1>>

getContentDocument(t, p) ==
  IF getContentFrame(t, p) = Null THEN Throw
  ELSE contentDocument(t, p, getContentFrame(t, p))

EVENT_NAMES ==
  [type \in {"popupshowing", "popuphiding", "popupshown", "popuphidden",
             "document-element-inserted", "DOMContentLoaded", "load"} |->
     CASE type = "popupshowing" -> "sdk-panel-show"
       [] type = "popuphiding" -> "sdk-panel-hide"
       [] type = "popupshown" -> "sdk-panel-shown"
       [] type = "popuphidden" -> "sdk-panel-hidden"
       [] type = "document-element-inserted" -> "sdk-panel-content-changed"
       [] type = "DOMContentLoaded" -> "sdk-panel-content-loaded"
       [] type = "load" -> "sdk-panel-document-loaded"]

emit(t, type, p) ==
  [t EXCEPT !.ops = Append(@, [kind |-> "emit", name |-> EVENT_NAMES[type],
                               subject |-> p])]

\* The anonymous nodes of the binding can be reached once the binding is
\* constructed and the panel is part of a document.
anonymousNode(t, p) == openPopup[p] /\ t.parentNode[p] # Null

\* ------------------------------------------------------------ display
screenX(g) == g.left + g.innerX * g.zoom
screenY(g) == g.top + g.innerY * g.zoom

\* screenY > availHeight / 2 + height, without the fraction
vertical(g, height) ==
  IF 2 * screenY(g) > g.availHeight + 2 * height THEN "top" ELSE "bottom"

\* screenY > availWidth / 2 + width, without the fraction
\* horizontal decided by the anchor's screen X
horizontalByX(g, width) ==
  IF 2 * screenX(g) > g.availWidth + 2 * width THEN "left" ELSE "right"

horizontal(g, width) ==
  IF 2 * screenY(g) > g.availWidth + 2 * width THEN "left" ELSE "right"

position(g, width, height) ==
  LET v == vertical(g, height)
      verticalInverse == IF v = "top" THEN "bottom" ELSE "top"
  IN v \o "center " \o verticalInverse \o horizontal(g, width)

\* panel.openPopup(anchor, position, x, y) as the popup manager takes it:
\* a closed popup that has a frame starts showing, any other call is ignored
hostOpenPopup(t, p) ==
  IF t.state[p] = "closed" /\ t.pending[p] = "none" /\ t.parentNode[p] # Null
  THEN [t EXCEPT !.state[p] = "showing", !.pending[p] = "popupshowing"]
  ELSE t

shimDefaultStyle(t, p) ==
  [t EXCEPT !.ops = Append(@, [kind |-> "shim", applied |-> anonymousNode(t, p)])]

\* the middle of the most recently active window instead of the panel's
centreOfMostRecent(g, document, width, height) ==
  [x2 |-> g.clientWidth[mostRecent] - width,
   y2 |-> g.clientHeight[mostRecent] - height]

\* clientWidth / 2 - width / 2 and clientHeight / 2 - height / 2 of the
\* document's root element, both doubled so that halves stay integers
centre(g, document, width, height) ==
  [x2 |-> g.clientWidth[document] - width,
   y2 |-> g.clientHeight[document] - height]

\* x and y are kept doubled (x2 = 2 * x) so that halves stay integers.
\* The first entry of ops records the call itself with its arguments.
display(t, p, width, height, anchor) ==
  LET t0 == [t EXCEPT !.ops = Append(@, [kind |-> "display",
                 args |-> [panel |-> p, width |-> width, height |-> height,
                           anchor |-> anchor]])]
      t1 == shimDefaultStyle(t0, p)
      t2 == IF anchor = Null THEN t1
            ELSE [t1 EXCEPT !.ops = Append(@, [kind |-> "setAttribute",
                                               name |-> "flip", value |-> "both"])]
      t3 == [t2 EXCEPT !.frameSize[p]["view"] =
                         [width |-> width, height |-> height],
                       !.ops = Append(@, [kind |-> "setSize", frame |-> "view",
                                          width |-> width, height |-> height])]
      document == t.ownerDocument[p]
      call == IF anchor = Null
              THEN [kind |-> "openPopup", anchor |-> Null, position |-> Null,
                    x2 |-> centre(geom, document, width, height).x2,
                    y2 |-> centre(geom, document, width, height).y2]
              ELSE [kind |-> "openPopup", anchor |-> anchor,
                    position |-> position(geom, width, height),
                    x2 |-> Null, y2 |-> Null]
  IN IF openPopup[p]
     THEN hostOpenPopup([t3 EXCEPT !.ops = Append(@, call)], p)
     ELSE [t3 EXCEPT !.ops = Append(@, [kind |-> "throw"])]

\* --------------------------------------------------------------- open
setTimeout(t, p, width, height, anchor) ==
  LET X == [panel |-> p, width |-> width, height |-> height, anchor |-> anchor]
  IN [t EXCEPT !.timers = Append(@, X),
               !.ops = Append(@, [kind |-> "setTimeout", args |-> X])]

\* open whose retry loses the anchor
openDropsAnchor(t, p, width, height, anchor) ==
  IF ~openPopup[p] THEN setTimeout(t, p, width, height, Null)
  ELSE display(t, p, width, height, anchor)

\* open that does nothing for a panel whose background frame is released
openSkipsDisposed(t, p, width, height, anchor) ==
  IF backgroundFrame[p] = Null THEN t
  ELSE IF ~openPopup[p] THEN setTimeout(t, p, width, height, anchor)
  ELSE display(t, p, width, height, anchor)

\* open that displays and sets a timer as well
openDisplaysAndRetries(t, p, width, height, anchor) ==
  IF ~openPopup[p] THEN setTimeout(t, p, width, height, anchor)
  ELSE setTimeout(display(t, p, width, height, anchor), p, width, height, anchor)

open(t, p, width, height, anchor) ==
  IF ~openPopup[p] THEN setTimeout(t, p, width, height, anchor)
  ELSE display(t, p, width, height, anchor)

getOwnerBrowserWindow(anchor) == IF anchor = "a1" THEN "d2" ELSE Null

\* show that opens before it attaches
showOpensFirst(t, p, width, height, focus, anchor) ==
  LET t1 == [t EXCEPT !.ops = Append(@, [kind |-> "setAttribute",
                                         name |-> "noautofocus",
                                         value |-> ~focus])]
      window == IF anchor = Null THEN Null ELSE getOwnerBrowserWindow(anchor)
      document == IF window # Null THEN window ELSE mostRecent
  IN attach(open(t1, p, width, height, anchor), p, document)

show(t, p, width, height, focus, anchor) ==
  LET t1 == [t EXCEPT !.ops = Append(@, [kind |-> "setAttribute",
                                         name |-> "noautofocus",
                                         value |-> ~focus])]
      window == IF anchor = Null THEN Null ELSE getOwnerBrowserWindow(anchor)
      document == IF window # Null THEN window ELSE mostRecent
  IN open(attach(t1, p, document), p, width, height, anchor)

\* -------------------------------------------------------------- style
\* style without its try/catch: a failure reaches the caller
styleNoCatch(t, p, computed) ==
  LET frame == getContentFrame(t, p)
      doc == contentDocument(t, p, frame)
  IN IF frame # Null /\ anonymousNode(t, p) /\ computed
     THEN [t EXCEPT !.styleNodes[doc] = @ + 1,
                    !.ops = Append(@, [kind |-> "insertStyle", doc |-> doc])]
     ELSE [t EXCEPT !.ops = Append(@, [kind |-> "throw"])]

\* Everything style does is inside its try.  It fails when the content frame
\* is null, when the binding's wrapper node cannot be reached, and when the
\* host gives no computed style for it (computed is the host's answer);
\* the style node is created and inserted only after all of these.
style(t, p, computed) ==
  LET frame == getContentFrame(t, p)
      doc == contentDocument(t, p, frame)
  IN IF frame # Null /\ anonymousNode(t, p) /\ computed
     THEN [t EXCEPT !.styleNodes[doc] = @ + 1,
                    !.ops = Append(@, [kind |-> "insertStyle", doc |-> doc])]
     ELSE [t EXCEPT !.ops = Append(@, [kind |-> "logError"])]

\* ------------------------------------------------------ resize, setURL
\* resize that takes the frame getContentFrame returns
resizeActive(t, p, width, height) ==
  LET frame == getContentFrame(t, p)
  IN IF frame = Null THEN [t EXCEPT !.ops = Append(@, [kind |-> "throw"])]
     ELSE [t EXCEPT !.frameSize[p][frame] = [width |-> width, height |-> height],
                    !.ops = Append(@, [kind |-> "setSize", frame |-> frame,
                                       width |-> width, height |-> height])]

\* panel.firstChild is the view frame, whatever the state
resize(t, p, width, height) ==
  [t EXCEPT !.frameSize[p]["view"] = [width |-> width, height |-> height],
            !.ops = Append(@, [kind |-> "setSize", frame |-> "view",
                               width |-> width, height |-> height])]

\* getContentFrame(panel).setAttribute("src", url); a null frame throws
setURL(t, p, url) ==
  LET frame == getContentFrame(t, p)
  IN IF frame = Null THEN [t EXCEPT !.ops = Append(@, [kind |-> "throw"])]
     ELSE [t EXCEPT !.src[p][frame] = url,
                    !.ops = Append(@, [kind |-> "setAttribute", name |-> "src",
                                       frame |-> frame, value |-> url])]

\* ----------------------------------------------------------- handlers
\* swapFrameLoaders(backgroundFrame, viewFrame) either exchanges the two
\* loaders or throws; ok is the host's answer
\* onDisplayChange without its try/catch: a failed swap ends the handler
onDisplayChangeNoCatch(t, p, type, ok) ==
  IF ok
  THEN emit([t EXCEPT !.swapped[p] = ~@,
                      !.ops = Append(@, [kind |-> "swap", ok |-> TRUE])],
            type, p)
  ELSE [t EXCEPT !.ops = Append(@, [kind |-> "swap", ok |-> FALSE])]

onDisplayChange(t, p, type, ok) ==
  LET t1 == IF ok
            THEN [t EXCEPT !.swapped[p] = ~@,
                           !.ops = Append(@, [kind |-> "swap", ok |-> TRUE])]
            ELSE [t EXCEPT !.ops = Append(@, [kind |-> "swap", ok |-> FALSE])]
  IN emit(t1, type, p)

onPanelStateChange(t, p, type) == emit(t, type, p)

onContentReady(t, p, target, type, computed) ==
  LET t1 == [t EXCEPT !.ops = Append(@, [kind |-> "handler", panel |-> p])]
  IN IF getContentFrame(t, p) = Null
     THEN [t1 EXCEPT !.ops = Append(@, [kind |-> "throw"])]
     ELSE IF target = getContentDocument(t, p)
          THEN emit(style(t1, p, computed), type, p)
          ELSE t1

onContentLoad(t, p, target, type) ==
  LET t1 == [t EXCEPT !.ops = Append(@, [kind |-> "handler", panel |-> p])]
  IN IF getContentFrame(t, p) = Null
     THEN [t1 EXCEPT !.ops = Append(@, [kind |-> "throw"])]
     ELSE IF target = getContentDocument(t, p)
          THEN emit(t1, type, p)
          ELSE t1

\* onContentChange without the test of the document's identity
onContentChangeAny(t, p, subject, defaultView, type) ==
  LET t1 == [t EXCEPT !.ops = Append(@, [kind |-> "handler", panel |-> p])]
  IN IF defaultView THEN emit(t1, type, p) ELSE t1

onContentChange(t, p, subject, defaultView, type) ==
  LET t1 == [t EXCEPT !.ops = Append(@, [kind |-> "handler", panel |-> p])]
  IN IF getContentFrame(t, p) = Null
     THEN [t1 EXCEPT !.ops = Append(@, [kind |-> "throw"])]
     ELSE IF subject = getContentDocument(t, p) /\ defaultView
          THEN emit(t1, type, p)
          ELSE t1

\* ------------------------------------------------------------ actions
\* Geometry of the lifecycle runs: one anchor rectangle on one screen.
MainGeom ==
  [top |-> 400, left |-> 10, innerX |-> 0, innerY |-> 80, zoom |-> 1,
   availWidth |-> 1000, availHeight |-> 600,
   clientWidth |-> [d \in Docs |-> IF d = "d1" THEN 800 ELSE 640],
   clientHeight |-> [d \in Docs |-> IF d = "d1" THEN 500 ELSE 480]]

InitPanels ==
  /\ nPanels = 0
  /\ parentNode = [p \in Panels |-> Null]
  /\ children = [d \in Docs |-> <<>>]
  /\ ownerDocument = [p \in Panels |-> Null]
  /\ mostRecent = "d1"
  /\ openPopup = [p \in Panels |-> FALSE]
  /\ state = [p \in Panels |-> "closed"]
  /\ pending = [p \in Panels |-> "none"]
  /\ backgroundFrame = [p \in Panels |-> Null]
  /\ swapped = [p \in Panels |-> FALSE]
  /\ listeners = <<>>
  /\ timers = <<>>
  /\ styleNodes = [d \in ContentDocs |-> 0]
  /\ frameSize = [p \in Panels |-> [f \in Frames |-> Unset]]
  /\ src = [p \in Panels |-> [f \in Frames |-> Null]]
  /\ last = [op |-> "init", panel |-> 0, arg |-> Null, again |-> FALSE,
             ops |-> <<>>]

Init == InitPanels /\ geom = MainGeom

\* style nodes inserted so far, in all documents
Inserted(sn) ==
  LET RECURSIVE Sum(_)
      Sum(S) == IF S = {} THEN 0
                ELSE LET d == CHOOSE d \in S : TRUE IN sn[d] + Sum(S \ {d})
  IN Sum(DOMAIN sn)

\* The operation op(p, arg) ran, made the host calls t.ops and left t.
Commit(t, op, p, arg, again) ==
  /\ Len(t.timers) <= MaxPending
  /\ Inserted(t.styleNodes) <= MaxStyleNodes
  /\ parentNode' = t.parentNode
  /\ children' = t.children
  /\ ownerDocument' = t.ownerDocument
  /\ timers' = t.timers
  /\ state' = t.state
  /\ pending' = t.pending
  /\ swapped' = t.swapped
  /\ styleNodes' = t.styleNodes
  /\ frameSize' = t.frameSize
  /\ src' = t.src
  /\ last' = [op |-> op, panel |-> p, arg |-> arg, again |-> again,
              ops |-> t.ops]

Make(document) ==
  /\ nPanels < Cardinality(Panels)
  /\ LET p == nPanels + 1
         doc == IF document = Null THEN mostRecent ELSE document
         created == [World EXCEPT !.ownerDocument[p] = doc,
                                  !.src[p] = [f \in Frames |-> DataURI]]
     IN /\ Commit(attach(created, p, doc), "make", p, document, FALSE)
        /\ nPanels' = p
        /\ backgroundFrame' = [backgroundFrame EXCEPT ![p] = "bg"]
        /\ listeners' = Append(listeners, p)
  /\ UNCHANGED <<mostRecent, openPopup, geom>>

Attach(p, document) ==
  /\ made(p)
  /\ Commit(attach(World, p, document), "attach", p, document,
            last.op = "attach" /\ last.panel = p /\ last.arg = document)
  /\ UNCHANGED <<nPanels, mostRecent, openPopup, backgroundFrame, listeners, geom>>

Detach(p) ==
  /\ made(p)
  /\ Commit(detach(World, p), "detach", p, Null, FALSE)
  /\ UNCHANGED <<nPanels, mostRecent, openPopup, backgroundFrame, listeners, geom>>

Show(p, width, height, focus, anchor) ==
  /\ made(p)
  /\ Commit(show(World, p, width, height, focus, anchor), "show", p,
            [panel |-> p, width |-> width, height |-> height,
             anchor |-> anchor, focus |-> focus], FALSE)
  /\ UNCHANGED <<nPanels, mostRecent, openPopup, backgroundFrame, listeners, geom>>

Open(p, width, height, anchor) ==
  /\ made(p)
  /\ Commit(open(World, p, width, height, anchor), "open", p,
            [panel |-> p, width |-> width, height |-> height,
             anchor |-> anchor], FALSE)
  /\ UNCHANGED <<nPanels, mostRecent, openPopup, backgroundFrame, listeners, geom>>

Display(p, width, height, anchor) ==
  /\ made(p)
  /\ Commit(display(World, p, width, height, anchor), "display", p,
            [panel |-> p, width |-> width, height |-> height,
             anchor |-> anchor], FALSE)
  /\ UNCHANGED <<nPanels, mostRecent, openPopup, backgroundFrame, listeners, geom>>

\* The timer due first fires (all are set 50 ms ahead): open runs again
\* with the arguments the timer carries
RetryFires ==
  /\ timers # <<>>
  /\ LET X == Head(timers)
     IN Commit(open([World EXCEPT !.timers = Tail(@)], X.panel, X.width,
                    X.height, X.anchor), "retry", X.panel, X, FALSE)
  /\ UNCHANGED <<nPanels, mostRecent, openPopup, backgroundFrame, listeners, geom>>

\* The XBL binding of a panel that is part of a document gets constructed
BindingConstructed(p) ==
  /\ made(p) /\ ~openPopup[p] /\ parentNode[p] # Null
  /\ openPopup' = [openPopup EXCEPT ![p] = TRUE]
  /\ Commit(World, "binding", p, Null, FALSE)
  /\ UNCHANGED <<nPanels, mostRecent, backgroundFrame, listeners, geom>>

\* close without its test: calling a hidePopup that is not there throws
closeUnchecked(t, p) ==
  IF ~openPopup[p] THEN [t EXCEPT !.ops = Append(@, [kind |-> "throw"])]
  ELSE LET t1 == [t EXCEPT !.ops = Append(@, [kind |-> "hidePopup", panel |-> p])]
       IN IF t.state[p] = "open" /\ t.pending[p] = "none"
          THEN [t1 EXCEPT !.state[p] = "hiding", !.pending[p] = "popuphiding"]
          ELSE t1

\* panel.hidePopup comes with the binding; the popup manager hides a popup
\* that is open and settled
close(t, p) ==
  IF ~openPopup[p] THEN t
  ELSE LET t1 == [t EXCEPT !.ops = Append(@, [kind |-> "hidePopup", panel |-> p])]
       IN IF t.state[p] = "open" /\ t.pending[p] = "none"
          THEN [t1 EXCEPT !.state[p] = "hiding", !.pending[p] = "popuphiding"]
          ELSE t1

Close(p) ==
  /\ made(p)
  /\ Commit(close(World, p), "close", p, Null, FALSE)
  /\ UNCHANGED <<nPanels, mostRecent, openPopup, backgroundFrame, listeners, geom>>

Style(p, computed) ==
  /\ made(p)
  /\ Commit(style(World, p, computed), "style", p, computed, FALSE)
  /\ UNCHANGED <<nPanels, mostRecent, openPopup, backgroundFrame, listeners, geom>>

Resize(p, width, height) ==
  /\ made(p)
  /\ Commit(resize(World, p, width, height), "resize", p,
            [panel |-> p, width |-> width, height |-> height], FALSE)
  /\ UNCHANGED <<nPanels, mostRecent, openPopup, backgroundFrame, listeners, geom>>

SetURL(p, url) ==
  /\ made(p)
  /\ Commit(setURL(World, p, url), "setURL", p, url, FALSE)
  /\ UNCHANGED <<nPanels, mostRecent, openPopup, backgroundFrame, listeners, geom>>

\* The three queries change nothing; ops holds what they returned
IsOpen(p) ==
  /\ made(p)
  /\ Commit([World EXCEPT !.ops = <<[kind |-> "return",
                                     value |-> isOpen(World, p)]>>],
            "isOpen", p, Null, FALSE)
  /\ UNCHANGED <<nPanels, mostRecent, openPopup, backgroundFrame, listeners, geom>>

GetContentFrame(p) ==
  /\ made(p)
  /\ Commit([World EXCEPT !.ops = <<[kind |-> "return",
                                     value |-> getContentFrame(World, p)]>>],
            "getContentFrame", p, Null, FALSE)
  /\ UNCHANGED <<nPanels, mostRecent, openPopup, backgroundFrame, listeners, geom>>

GetContentDocument(p) ==
  /\ made(p)
  /\ Commit([World EXCEPT !.ops =
               IF getContentFrame(World, p) = Null THEN <<[kind |-> "throw"]>>
               ELSE <<[kind |-> "return",
                       value |-> getContentDocument(World, p)]>>],
            "getContentDocument", p, Null, FALSE)
  /\ UNCHANGED <<nPanels, mostRecent, openPopup, backgroundFrame, listeners, geom>>

\* events.off that removes nothing
offNothing(ls, p) == ls

\* events.off that removes the oldest handler, whosever it is
offFirst(ls, p) == IF ls = <<>> THEN ls ELSE Tail(ls)

\* events.off(type, handler)
off(ls, p) == Without(ls, p)

Dispose(p) ==
  /\ made(p)
  /\ IF backgroundFrame[p] = Null
     THEN /\ Commit([World EXCEPT !.ops = <<[kind |-> "throw"]>>], "dispose",
                    p, Null, FALSE)
          /\ UNCHANGED <<backgroundFrame, listeners>>
     ELSE /\ backgroundFrame' = [backgroundFrame EXCEPT ![p] = Null]
          /\ listeners' = off(listeners, p)
          /\ Commit(detach([World EXCEPT !.ops = <<[kind |-> "removeFrame",
                                                    panel |-> p]>>], p),
                    "dispose", p, Null, FALSE)
  /\ UNCHANGED <<nPanels, mostRecent, openPopup, geom>>

\* ------------------------------------------------------- host events
\* The frame loaders cannot be exchanged once the background frame has
\* left its document; otherwise the host decides.
SwapMay(p, ok) == ok => backgroundFrame[p] # Null

PopupShowing(p, ok) ==
  /\ pending[p] = "popupshowing" /\ SwapMay(p, ok)
  /\ Commit([onDisplayChange(World, p, "popupshowing", ok)
               EXCEPT !.pending[p] = "opening"],
            "popupshowing", p, Null, FALSE)
  /\ UNCHANGED <<nPanels, mostRecent, openPopup, backgroundFrame, listeners, geom>>

PopupOpened(p) ==
  /\ pending[p] = "opening"
  /\ Commit([World EXCEPT !.state[p] = "open", !.pending[p] = "popupshown"],
            "opened", p, Null, FALSE)
  /\ UNCHANGED <<nPanels, mostRecent, openPopup, backgroundFrame, listeners, geom>>

PopupShown(p) ==
  /\ pending[p] = "popupshown"
  /\ Commit([onPanelStateChange(World, p, "popupshown")
               EXCEPT !.pending[p] = "none"],
            "popupshown", p, Null, FALSE)
  /\ UNCHANGED <<nPanels, mostRecent, openPopup, backgroundFrame, listeners, geom>>

PopupHiding(p, ok) ==
  /\ pending[p] = "popuphiding" /\ SwapMay(p, ok)
  /\ Commit([onDisplayChange(World, p, "popuphiding", ok)
               EXCEPT !.pending[p] = "closing"],
            "popuphiding", p, Null, FALSE)
  /\ UNCHANGED <<nPanels, mostRecent, openPopup, backgroundFrame, listeners, geom>>

\* The popup manager closes the popup and dispatches popuphidden at once
PopupHidden(p) ==
  /\ pending[p] = "closing"
  /\ Commit([onPanelStateChange([World EXCEPT !.state[p] = "closed"], p,
                                "popuphidden")
               EXCEPT !.pending[p] = "none"],
            "popuphidden", p, Null, FALSE)
  /\ UNCHANGED <<nPanels, mostRecent, openPopup, backgroundFrame, listeners, geom>>

\* DOMContentLoaded or load reaches the capturing listeners of the panel
\* (from the view frame) or of the background frame, with the document of
\* that frame or one nested in it as target
ContentReady(p, frame, nested, computed) ==
  /\ made(p) /\ (frame = "bg" => backgroundFrame[p] # Null)
  /\ LET target == IF nested THEN OtherDoc ELSE contentDocument(World, p, frame)
     IN Commit(onContentReady(World, p, target, "DOMContentLoaded", computed),
               "DOMContentLoaded", p, target, FALSE)
  /\ UNCHANGED <<nPanels, mostRecent, openPopup, backgroundFrame, listeners, geom>>

ContentLoad(p, frame, nested) ==
  /\ made(p) /\ (frame = "bg" => backgroundFrame[p] # Null)
  /\ LET target == IF nested THEN OtherDoc ELSE contentDocument(World, p, frame)
     IN Commit(onContentLoad(World, p, target, "load"), "load", p, target, FALSE)
  /\ UNCHANGED <<nPanels, mostRecent, openPopup, backgroundFrame, listeners, geom>>

\* events.emit on the global bus: every registered handler runs, in order
RECURSIVE dispatch(_, _, _, _)
dispatch(t, ls, subject, defaultView) ==
  IF ls = <<>> THEN t
  ELSE dispatch(onContentChange(t, Head(ls), subject, defaultView,
                                "document-element-inserted"),
                Tail(ls), subject, defaultView)

DocumentElementInserted(subject, defaultView) ==
  /\ subject = OtherDoc \/ made(subject[1])
  /\ Commit(dispatch(World, listeners, subject, defaultView),
            "document-element-inserted", 0, subject, FALSE)
  /\ UNCHANGED <<nPanels, mostRecent, openPopup, backgroundFrame, listeners, geom>>

ActivateWindow(d) ==
  /\ d # mostRecent
  /\ mostRecent' = d
  /\ Commit(World, "activate", 0, d, FALSE)
  /\ UNCHANGED <<nPanels, openPopup, backgroundFrame, listeners, geom>>

\* The whole module: every exported operation and every host event.  Its
\* state space is the product of its parts; the specifications that follow
\* each take the operations of one part.
Next ==
  \/ \E d \in Docs \cup {Null} : Make(d)
  \/ \E p \in Panels, d \in Docs \cup {Null} : Attach(p, d)
  \/ \E p \in Panels : Detach(p)
  \/ \E p \in Panels, w \in Widths, h \in Heights, f \in BOOLEAN,
        a \in Anchors \cup {Null} : Show(p, w, h, f, a)
  \/ \E p \in Panels, w \in Widths, h \in Heights,
        a \in Anchors \cup {Null} : Open(p, w, h, a)
  \/ \E p \in Panels, w \in Widths, h \in Heights,
        a \in Anchors \cup {Null} : Display(p, w, h, a)
  \/ RetryFires
  \/ \E p \in Panels : BindingConstructed(p)
  \/ \E p \in Panels : Close(p)
  \/ \E p \in Panels, c \in BOOLEAN : Style(p, c)
  \/ \E p \in Panels : Dispose(p)
  \/ \E p \in Panels, ok \in BOOLEAN : PopupShowing(p, ok)
  \/ \E p \in Panels : PopupOpened(p)
  \/ \E p \in Panels : PopupShown(p)
  \/ \E p \in Panels, ok \in BOOLEAN : PopupHiding(p, ok)
  \/ \E p \in Panels : PopupHidden(p)
  \/ \E p \in Panels, fr \in Frames, n \in BOOLEAN, c \in BOOLEAN :
        ContentReady(p, fr, n, c)
  \/ \E p \in Panels, fr \in {"bg", "view"}, n \in BOOLEAN : ContentLoad(p, fr, n)
  \/ \E s \in ContentDocs, dv \in BOOLEAN : DocumentElementInserted(s, dv)
  \/ \E d \in Docs : ActivateWindow(d)
  \/ \E p \in Panels, w \in Widths, h \in Heights : Resize(p, w, h)
  \/ \E p \in Panels, u \in URLs : SetURL(p, u)
  \/ \E p \in Panels : IsOpen(p)
  \/ \E p \in Panels : GetContentFrame(p)
  \/ \E p \in Panels : GetContentDocument(p)

Spec == Init /\ [][Next]_vars

\* The operations that move panels between containers
NextTree ==
  \/ \E d \in Docs \cup {Null} : Make(d)
  \/ \E p \in Panels, d \in Docs \cup {Null} : Attach(p, d)
  \/ \E p \in Panels : Detach(p)
  \/ \E p \in Panels : Show(p, 100, 50, TRUE, "a1")
  \/ RetryFires
  \/ \E p \in Panels : BindingConstructed(p)
  \/ \E p \in Panels : Dispose(p)
  \/ \E d \in Docs : ActivateWindow(d)

SpecTree == Init /\ [][NextTree]_vars

\* open, its retry timer and what can happen to the panel meanwhile, for
\* one panel (the timers of two panels share nothing but the queue).
\* A timer that was set fires: the timer queue is served.
\* the arguments open is called with in NextLive: two calls that differ in
\* width and in anchor
LiveArgs ==
  {[panel |-> 1, width |-> 100, height |-> 50, anchor |-> Null],
   [panel |-> 1, width |-> 200, height |-> 50, anchor |-> "a1"]}

NextLive ==
  \/ nPanels = 0 /\ Make(Null)
  \/ \E X \in LiveArgs : Open(X.panel, X.width, X.height, X.anchor)
  \/ RetryFires
  \/ \E p \in Panels : BindingConstructed(p)
  \/ \E p \in Panels : Attach(p, Null)
  \/ \E p \in Panels : Detach(p)
  \/ \E p \in Panels : Dispose(p)

TimersFire == WF_vars(RetryFires)

SpecLive == Init /\ [][NextLive]_vars /\ TimersFire

\* Calls of open and of show that queue up before the binding of the panel
\* is constructed, and the timers that serve them
NextQueue ==
  \/ nPanels = 0 /\ Make(Null)
  \/ \E X \in LiveArgs : Open(X.panel, X.width, X.height, X.anchor)
  \/ \E X \in LiveArgs, f \in BOOLEAN :
        Show(X.panel, X.width, X.height, f, X.anchor)
  \/ RetryFires
  \/ \E p \in Panels : BindingConstructed(p)
  \/ \E p \in Panels : Detach(p)
  \/ \E d \in Docs : ActivateWindow(d)

SpecQueue == Init /\ [][NextQueue]_vars /\ TimersFire

\* The popup's way from closed to open and back, with its frame swaps
NextPopup ==
  \/ Make(Null)
  \/ \E p \in Panels : BindingConstructed(p)
  \/ \E p \in Panels : Open(p, 100, 50, Null)
  \/ RetryFires
  \/ \E p \in Panels : Close(p)
  \/ \E p \in Panels, ok \in BOOLEAN : PopupShowing(p, ok)
  \/ \E p \in Panels : PopupOpened(p)
  \/ \E p \in Panels : PopupShown(p)
  \/ \E p \in Panels, ok \in BOOLEAN : PopupHiding(p, ok)
  \/ \E p \in Panels : PopupHidden(p)
  \/ \E p \in Panels : Dispose(p)

SpecPopup == Init /\ [][NextPopup]_vars

\* Content events and the style sheet, for panels that are closed, showing
\* or open, with their frames swapped or not; the caller opens a panel once
\* its binding is there (SpecLive has the retry, SpecPopup the way back)
NextContent ==
  \/ Make(Null)
  \/ \E p \in Panels : BindingConstructed(p)
  \/ \E p \in Panels : openPopup[p] /\ Open(p, 100, 50, Null)
  \/ \E p \in Panels, ok \in BOOLEAN : PopupShowing(p, ok)
  \/ \E p \in Panels : PopupOpened(p)
  \/ \E p \in Panels, c \in BOOLEAN : Style(p, c)
  \/ \E p \in Panels : Dispose(p)
  \/ \E p \in Panels, fr \in Frames, n \in BOOLEAN, c \in BOOLEAN :
        ContentReady(p, fr, n, c)
  \/ \E p \in Panels, fr \in {"bg", "view"}, n \in BOOLEAN : ContentLoad(p, fr, n)
  \/ \E s \in ContentDocs, dv \in BOOLEAN : DocumentElementInserted(s, dv)

SpecContent == Init /\ [][NextContent]_vars

\* show for one panel, made in any window, with and without focus, with an
\* anchor of a browser window, an anchor of no browser window and no anchor,
\* while the active window changes and the caller detaches the panel
NextShow ==
  \/ \E d \in Docs \cup {Null} : nPanels = 0 /\ Make(d)
  \/ \E p \in Panels, f \in BOOLEAN, a \in Anchors \cup {Null} :
        Show(p, 100, 50, f, a)
  \/ RetryFires
  \/ \E p \in Panels : BindingConstructed(p)
  \/ \E p \in Panels : Detach(p)
  \/ \E d \in Docs : ActivateWindow(d)

SpecShow == Init /\ [][NextShow]_vars

\* The frames of one panel through its life: sized, given a URL and asked
\* for in every state of the popup, before and after dispose
NextFrames ==
  \/ nPanels = 0 /\ Make(Null)
  \/ \E p \in Panels : BindingConstructed(p)
  \/ \E p \in Panels : openPopup[p] /\ Open(p, 100, 50, Null)
  \/ \E p \in Panels : Close(p)
  \/ \E p \in Panels, ok \in BOOLEAN : PopupShowing(p, ok)
  \/ \E p \in Panels : PopupOpened(p)
  \/ \E p \in Panels : PopupShown(p)
  \/ \E p \in Panels, ok \in BOOLEAN : PopupHiding(p, ok)
  \/ \E p \in Panels : PopupHidden(p)
  \/ \E p \in Panels : Dispose(p)
  \/ \E p \in Panels, w \in Widths, h \in Heights : Resize(p, w, h)
  \/ \E p \in Panels, u \in URLs : SetURL(p, u)
  \/ \E p \in Panels : IsOpen(p)
  \/ \E p \in Panels : GetContentFrame(p)
  \/ \E p \in Panels : GetContentDocument(p)

SpecFrames == Init /\ [][NextFrames]_vars

\* display as a function of the geometry: the first panel, made in either
\* document with its binding constructed, is displayed on every screen of
\* Geoms.  The two windows differ in the size of their content area.
Coords == 0..MaxCoord
Geoms ==
  [top : Coords, left : {0, 2 * MaxCoord}, innerX : {0}, innerY : {0, 1},
   zoom : {1, 2}, availWidth : {2, 4}, availHeight : {2, 4},
   clientWidth : {[d \in Docs |-> IF d = "d1" THEN 8 ELSE 10]},
   clientHeight : {[d \in Docs |-> IF d = "d1" THEN 6 ELSE 9],
                   [d \in Docs |-> IF d = "d1" THEN 7 ELSE 9]}]

InitDisplay ==
  /\ nPanels = 1
  /\ parentNode \in {[p \in Panels |-> IF p = 1 THEN d ELSE Null] : d \in Docs}
  /\ children = [d \in Docs |-> IF d = parentNode[1] THEN <<1>> ELSE <<>>]
  /\ ownerDocument = parentNode
  /\ mostRecent = "d1"
  /\ openPopup = [p \in Panels |-> p = 1]
  /\ state = [p \in Panels |-> "closed"]
  /\ pending = [p \in Panels |-> "none"]
  /\ backgroundFrame = [p \in Panels |-> IF p = 1 THEN "bg" ELSE Null]
  /\ swapped = [p \in Panels |-> FALSE]
  /\ listeners = <<1>>
  /\ timers = <<>>
  /\ styleNodes = [d \in ContentDocs |-> 0]
  /\ frameSize = [p \in Panels |-> [f \in Frames |-> Unset]]
  /\ src = [p \in Panels |-> [f \in Frames |-> IF p = 1 THEN DataURI ELSE Null]]
  /\ last = [op |-> "binding", panel |-> 1, arg |-> Null, again |-> FALSE,
             ops |-> <<>>]
  /\ geom \in Geoms

NextDisplay ==
  \E w \in {1, 2}, h \in {1, 2}, a \in {Null, "a1"} : Display(1, w, h, a)

SpecDisplay == InitDisplay /\ [][NextDisplay]_vars

\* ------------------------------------------------------------- claims
Containers(p) == {d \in Docs : Count(children[d], p) > 0}

LastDoc == IF last.arg = Null THEN mostRecent ELSE last.arg

\* C2: a panel is a child of at most one container, once, and that
\* container is its parentNode; right after attach(panel, doc) it is a
\* child of doc's container and of no other.
C2_OneContainer ==
  /\ \A p \in Panels :
       /\ Cardinality(Containers(p)) <= 1
       /\ \A d \in Docs : Count(children[d], p) <= 1
       /\ Containers(p) = IF parentNode[p] = Null THEN {} ELSE {parentNode[p]}
  /\ last.op = "attach" =>
       /\ parentNode[last.panel] = LastDoc
       /\ Containers(last.panel) = {LastDoc}

\* attach found the panel in another container: it detached, then appended
C2_Witness ==
  /\ last.op = "attach"
  /\ Len(last.ops) = 2
  /\ last.ops[1].kind = "removeChild"
  /\ last.ops[1].node # LastDoc
  /\ last.ops[2].kind = "appendChild"

\* C3: attach(panel, doc) called again right after attach(panel, doc)
\* changes no parent and no child list, makes no DOM call, and the panel is
\* in doc's container exactly once.
C3_AttachIdempotent ==
  [][(last'.op = "attach" /\ last'.again) =>
       /\ parentNode' = parentNode
       /\ children' = children
       /\ ownerDocument' = ownerDocument
       /\ last'.ops = <<>>
       /\ Count(children'[LastDoc'], last'.panel) = 1]_vars

\* the second of two attach calls in a row has run
C3_Witness ==
  /\ last.op = "attach" /\ last.again
  /\ Count(children[LastDoc], last.panel) = 1

HasKind(ops, k) == \E i \in 1..Len(ops) : ops[i].kind = k

\* a timer set by open has just fired and called display with X
RetryDisplays(X) ==
  /\ last.op = "retry"
  /\ \E i \in 1..Len(last.ops) :
       last.ops[i].kind = "display" /\ last.ops[i].args = X

\* open(X) has just been called while the popup API was not there
OpenedUnready(X) ==
  /\ last.op = "open" /\ last.arg = X
  /\ ~openPopup[X.panel]

\* C1: no call of open or of its timer calls display while panel.openPopup
\* is missing; and if the API ever becomes available, an open(panel, w, h,
\* anchor) made before that is followed by a timer that calls
\* display(panel, w, h, anchor).
C1_OpenRetriesUntilReady ==
  /\ [][HasKind(last'.ops, "display") /\ last'.op \in {"open", "retry", "show"}
          => openPopup[last'.panel]]_vars
  /\ \A X \in LiveArgs :
       (<>openPopup[X.panel]) => (OpenedUnready(X) ~> RetryDisplays(X))

\* a timer set by open has fired with the API available and called display
\* with the timer's arguments
C1_Witness ==
  /\ RetryDisplays(last.arg)
  /\ HasKind(last.ops, "openPopup")

\* the frame that holds the loader make created in the background frame,
\* the one the panel's content is loaded in
ContentHolder(p) == IF swapped[p] THEN "view" ELSE "bg"

\* C4: for a panel that is made and not disposed, getContentFrame returns
\* the frame that holds the panel's content, and that is the view frame
\* exactly while the panel is open.
C4_ContentFrameHoldsContent ==
  \A p \in Panels :
    (made(p) /\ backgroundFrame[p] # Null) =>
      /\ getContentFrame(World, p) = ContentHolder(p)
      /\ (ContentHolder(p) = "view") <=> (state[p] = "open")

\* C8: the handler of popupshowing and of popuphiding first tries the frame
\* swap and then emits the mapped event once, with the panel as subject,
\* whether the swap succeeded or threw.
C8_SwapThenEmit ==
  last.op \in {"popupshowing", "popuphiding"} =>
    /\ Len(last.ops) = 2
    /\ last.ops[1].kind = "swap"
    /\ last.ops[2].kind = "emit"
    /\ last.ops[2].name = (IF last.op = "popupshowing" THEN "sdk-panel-show"
                           ELSE "sdk-panel-hide")
    /\ last.ops[2].subject = last.panel

\* popuphiding was handled, the swap threw and sdk-panel-hide went out
C8_Witness ==
  /\ last.op = "popuphiding"
  /\ last.ops[1].kind = "swap" /\ ~last.ops[1].ok
  /\ last.ops[2].kind = "emit" /\ last.ops[2].name = "sdk-panel-hide"

disposed(p) == made(p) /\ backgroundFrame[p] = Null

\* C5: after a dispose(panel) that returned, panel.backgroundFrame is null
\* and the panel has no parent; and no document-element-inserted event,
\* whatever its subject, runs the content-change handler of a disposed
\* panel or emits an event with that panel as subject.
C5_DisposeSilences ==
  /\ (last.op = "dispose" /\ ~HasKind(last.ops, "throw")) =>
       /\ backgroundFrame[last.panel] = Null
       /\ parentNode[last.panel] = Null
       /\ Containers(last.panel) = {}
  /\ last.op = "document-element-inserted" =>
       \A i \in 1..Len(last.ops) :
         /\ last.ops[i].kind = "handler" => ~disposed(last.ops[i].panel)
         /\ last.ops[i].kind = "emit" => ~disposed(last.ops[i].subject)

\* the bus delivered document-element-inserted for a content document of a
\* disposed panel, and the handler of the other, live panel ran
C5_Witness ==
  /\ last.op = "document-element-inserted"
  /\ last.arg # OtherDoc
  /\ disposed(last.arg[1])
  /\ HasKind(last.ops, "handler")

\* C6: the bus holds exactly one document-element-inserted handler for each
\* panel that is made and not disposed, and none for any other panel.
C6_OneHandlerPerLivePanel ==
  \A p \in Panels :
    Count(listeners, p) = IF made(p) /\ ~disposed(p) THEN 1 ELSE 0

\* two panels were made and the second was disposed: the first one's
\* handler is the only one left
C6_Witness ==
  /\ nPanels = 2
  /\ disposed(2) /\ ~disposed(1)
  /\ listeners = <<1>>

\* C7: an event is forwarded for a panel only under its mapped name and
\* only if its target (subject) is the document getContentDocument(panel)
\* returns, which is a document of that panel and of no other.
C7_ForwardedOnlyForOwnDocument ==
  last.op \in {"DOMContentLoaded", "load", "document-element-inserted"} =>
    \A i \in 1..Len(last.ops) :
      last.ops[i].kind = "emit" =>
        /\ last.ops[i].name = EVENT_NAMES[last.op]
        /\ ~disposed(last.ops[i].subject) \/ state[last.ops[i].subject] = "open"
        /\ last.arg = getContentDocument(World, last.ops[i].subject)
        /\ last.arg[1] = last.ops[i].subject
        /\ last.op # "document-element-inserted" =>
             last.ops[i].subject = last.panel

EmitCount(ops) == Cardinality({i \in 1..Len(ops) : ops[i].kind = "emit"})

\* with two handlers on the bus, document-element-inserted for a document
\* of one panel ran both handlers and was forwarded once
C7_Witness ==
  /\ last.op = "document-element-inserted"
  /\ Len(listeners) = 2
  /\ Cardinality({i \in 1..Len(last.ops) : last.ops[i].kind = "handler"}) = 2
  /\ EmitCount(last.ops) = 1

\* C9: no content document ever holds more than one node with the id
\* sdk-panel-style.
C9_OneStyleNode == \A d \in ContentDocs : styleNodes[d] <= 1

\* the position handed to panel.openPopup by the last operation
PositionGiven ==
  LET i == CHOOSE i \in 1..Len(last.ops) : last.ops[i].kind = "openPopup"
  IN last.ops[i].position

\* C10: display with an anchor hands openPopup the position
\* <vertical>center <opposite vertical><horizontal>, vertical being top iff
\* the anchor's screen Y > availHeight / 2 + height and horizontal being
\* left iff the same screen Y > availWidth / 2 + width.
C10_PositionToken ==
  (last.op = "display" /\ last.arg.anchor # Null) =>
    LET Y2 == 2 * (geom.top + geom.innerY * geom.zoom)
        overV == Y2 > geom.availHeight + 2 * last.arg.height
        overH == Y2 > geom.availWidth + 2 * last.arg.width
    IN /\ HasKind(last.ops, "openPopup")
       /\ PositionGiven =
            (IF overV THEN "topcenter bottom" ELSE "bottomcenter top")
              \o (IF overH THEN "left" ELSE "right")
       /\ (~overV /\ ~overH) => PositionGiven = "bottomcenter topright"
       /\ (overV /\ overH) => PositionGiven = "topcenter bottomleft"

\* an anchor whose screen Y lies above both thresholds while its screen X
\* lies below the horizontal one was displayed at topcenter bottomleft
C10_Witness ==
  /\ last.op = "display" /\ last.arg.anchor # Null
  /\ HasKind(last.ops, "openPopup")
  /\ PositionGiven = "topcenter bottomleft"
  /\ 2 * (geom.left + geom.innerX * geom.zoom) <= geom.availWidth + 2 * last.arg.width

\* the call of panel.openPopup the last operation made
OpenPopupGiven ==
  LET i == CHOOSE i \in 1..Len(last.ops) : last.ops[i].kind = "openPopup"
  IN last.ops[i]

\* C11: display without an anchor calls openPopup with no anchor, a null
\* position and x = (clientWidth - width) / 2, y = (clientHeight - height) / 2
\* of the panel's owner document (compared doubled), and sets no flip
\* attribute on the panel.
C11_CentredWithoutAnchor ==
  (last.op = "display" /\ last.arg.anchor = Null) =>
    /\ HasKind(last.ops, "openPopup")
    /\ OpenPopupGiven.anchor = Null
    /\ OpenPopupGiven.position = Null
    /\ OpenPopupGiven.x2 =
         geom.clientWidth[ownerDocument[last.panel]] - last.arg.width
    /\ OpenPopupGiven.y2 =
         geom.clientHeight[ownerDocument[last.panel]] - last.arg.height
    /\ ~HasKind(last.ops, "setAttribute")

\* a panel whose owner document is not the most recently active window's
\* was displayed without an anchor, in the middle of its own window
C11_Witness ==
  /\ last.op = "display" /\ last.arg.anchor = Null
  /\ ownerDocument[last.panel] # mostRecent
  /\ HasKind(last.ops, "openPopup")
  /\ OpenPopupGiven.x2 = geom.clientWidth[ownerDocument[last.panel]] - last.arg.width
  /\ OpenPopupGiven.x2 # geom.clientWidth[mostRecent] - last.arg.width

\* the box-resize steps of the last operation
SizeSteps == {i \in 1..Len(last.ops) : last.ops[i].kind = "setSize"}

\* the last operation was resize, or made display's box-resize step
Resized == last.op = "resize" \/ (last.op \in {"open", "retry", "show", "display"}
                                   /\ SizeSteps # {})

\* C12, as the claim states it: resize and the box-resize step of display
\* set the size of the frame getContentFrame returns in the current state.
C12_ResizesActiveFrame ==
  Resized =>
    /\ getContentFrame(World, last.panel) # Null
    /\ \A i \in SizeSteps : last.ops[i].frame = getContentFrame(World, last.panel)
    /\ frameSize[last.panel][getContentFrame(World, last.panel)] =
         [width |-> last.arg.width, height |-> last.arg.height]

\* C12, amended: resize(panel, w, h) and the box-resize step of display set
\* the width and height of the view frame (panel.firstChild) to w by h in
\* every panel state, before and after dispose, and no operation sets the
\* size of the background frame.
C12_ResizesViewFrame ==
  /\ Resized =>
       /\ Cardinality(SizeSteps) = 1
       /\ \A i \in SizeSteps :
            /\ last.ops[i].frame = "view"
            /\ last.ops[i].width = last.arg.width
            /\ last.ops[i].height = last.arg.height
       /\ frameSize[last.panel]["view"] =
            [width |-> last.arg.width, height |-> last.arg.height]
  /\ \A p \in Panels : frameSize[p]["bg"] = Unset

\* a closed panel, whose content frame is the background frame, was resized
\* to a size it did not have: the view frame took it
C12_Witness ==
  /\ last.op = "resize"
  /\ state[last.panel] = "closed"
  /\ backgroundFrame[last.panel] = "bg"
  /\ frameSize[last.panel]["view"] = [width |-> 200, height |-> 50]

\* what the last operation, a query, returned
Returned == last.ops[1].value

\* C16: isOpen(panel) returns true if and only if panel.state is "open";
\* it returns false for a closed, a showing and a hiding panel.
C16_IsOpenIffStateOpen ==
  last.op = "isOpen" =>
    /\ Len(last.ops) = 1 /\ last.ops[1].kind = "return"
    /\ Returned = (state[last.panel] = "open")
    /\ state[last.panel] \in {"closed", "showing", "hiding"} => Returned = FALSE

\* isOpen answered false for a popup that has begun to show and whose
\* frames are already swapped
C16_Witness ==
  /\ last.op = "isOpen"
  /\ state[last.panel] = "showing" /\ swapped[last.panel]
  /\ Returned = FALSE

\* the frame the claim names for panel p: the view frame while the state is
\* open, panel.backgroundFrame (null once disposed) in every other state
FrameByState(p) == IF state[p] = "open" THEN "view" ELSE backgroundFrame[p]

\* C17: getContentFrame(panel) returns the view frame when panel.state is
\* open and panel.backgroundFrame in every other state; getContentDocument
\* returns the document of exactly that frame and setURL sets the src
\* attribute of exactly that frame, leaving the other frame's alone (both
\* throw when that frame is null, changing nothing).
C17_ContentFrameByState ==
  [][/\ last'.op = "getContentFrame" =>
          /\ last'.ops = <<[kind |-> "return", value |-> FrameByState(last'.panel)]>>
          /\ (state[last'.panel] # "open" /\ ~disposed(last'.panel)) =>
               last'.ops[1].value = "bg"
     /\ last'.op = "getContentDocument" =>
          last'.ops =
            IF FrameByState(last'.panel) = Null THEN <<[kind |-> "throw"]>>
            ELSE <<[kind |-> "return",
                    value |-> contentDocument(World, last'.panel,
                                              FrameByState(last'.panel))]>>
     /\ last'.op = "setURL" =>
          IF FrameByState(last'.panel) = Null
          THEN src' = src /\ last'.ops = <<[kind |-> "throw"]>>
          ELSE /\ src' = [src EXCEPT ![last'.panel][FrameByState(last'.panel)]
                                       = last'.arg]
               /\ last'.ops = <<[kind |-> "setAttribute", name |-> "src",
                                 frame |-> FrameByState(last'.panel),
                                 value |-> last'.arg]>>
     /\ last'.op \in {"getContentFrame", "getContentDocument", "setURL"} =>
          state' = state /\ backgroundFrame' = backgroundFrame]_vars

\* setURL on an open panel set the src of the view frame and left the
\* background frame with the URI it was created with
C17_Witness ==
  /\ last.op = "setURL"
  /\ state[last.panel] = "open"
  /\ src[last.panel]["view"] = last.arg
  /\ src[last.panel]["bg"] = DataURI

\* the document show attaches to: that of the anchor's browser window, or of
\* the most recently active one when there is no anchor or no such window
ShowTarget ==
  IF last.arg.anchor = "a1" THEN "d2" ELSE mostRecent

\* the steps of the last operation that belong to open
OpenSteps == {i \in 1..Len(last.ops) : last.ops[i].kind \in {"setTimeout", "display"}}

\* C13: show(panel, w, h, focus, anchor) first sets noautofocus to the
\* negation of focus, then attaches the panel to the container of the target
\* document, and only then calls open, once and with its own arguments: no
\* DOM call follows open's first step, and the panel is a child of the
\* target's container and of no other.
C13_ShowAttachesThenOpens ==
  last.op = "show" =>
    /\ last.ops[1] = [kind |-> "setAttribute", name |-> "noautofocus",
                      value |-> ~last.arg.focus]
    /\ Cardinality(OpenSteps) = 1
    /\ \A i \in OpenSteps :
         /\ last.ops[i].args = [panel |-> last.panel, width |-> last.arg.width,
                                height |-> last.arg.height,
                                anchor |-> last.arg.anchor]
         /\ \A j \in 1..Len(last.ops) :
              last.ops[j].kind \in {"removeChild", "appendChild"} => j < i
         /\ \A j \in 2..(i - 1) :
              last.ops[j].kind \in {"removeChild", "appendChild"}
    /\ parentNode[last.panel] = ShowTarget
    /\ Containers(last.panel) = {ShowTarget}
    /\ Count(children[ShowTarget], last.panel) = 1

\* show without focus and with an anchor of no browser window took the
\* panel out of another container, put it into that of the most recently
\* active window and then called display
C13_Witness ==
  /\ last.op = "show" /\ ~last.arg.focus /\ last.arg.anchor = "a2"
  /\ Len(last.ops) >= 4
  /\ last.ops[1].value = TRUE
  /\ last.ops[2].kind = "removeChild"
  /\ last.ops[3].kind = "appendChild" /\ last.ops[3].node = mostRecent
  /\ last.ops[4].kind = "display"

\* everything of the panels but the record of the last operation
panelState ==
  <<nPanels, parentNode, children, ownerDocument, openPopup, state, pending,
    backgroundFrame, swapped, listeners, timers, styleNodes, frameSize, src>>

\* C14: close(panel) on a panel that has no hidePopup makes no host call,
\* does not throw and changes nothing of the panel; on a panel that has one
\* it calls hidePopup exactly once and does not throw.
C14_CloseToleratesMissingHide ==
  [][last'.op = "close" =>
       IF ~openPopup[last'.panel]
       THEN last'.ops = <<>> /\ UNCHANGED panelState
       ELSE /\ Cardinality({i \in 1..Len(last'.ops) :
                              last'.ops[i].kind = "hidePopup"}) = 1
            /\ ~HasKind(last'.ops, "throw")]_vars

\* close returned on a panel whose binding, and with it hidePopup, is
\* missing
C14_Witness ==
  /\ last.op = "close"
  /\ ~openPopup[last.panel]
  /\ last.ops = <<>>
  /\ state[last.panel] = "closed"

\* style(p) cannot succeed: the content frame is null, or the binding's
\* wrapper node cannot be reached, or the host gives no computed style
StyleFails(p, computed) ==
  \/ FrameByState(p) = Null
  \/ ~openPopup[p] \/ parentNode[p] = Null
  \/ ~computed

\* C15: style(panel) never raises; when the wrapper node is missing, the
\* computed style is inaccessible or the content document is unavailable,
\* it logs the failure, inserts no style node and leaves every content
\* document as it was; otherwise it inserts one node and logs nothing.
C15_StyleNeverRaises ==
  [][last'.op = "style" =>
       /\ ~HasKind(last'.ops, "throw")
       /\ IF StyleFails(last'.panel, last'.arg)
          THEN /\ last'.ops = <<[kind |-> "logError"]>>
               /\ styleNodes' = styleNodes
          ELSE /\ Len(last'.ops) = 1 /\ last'.ops[1].kind = "insertStyle"
               /\ Inserted(styleNodes') = Inserted(styleNodes) + 1
       /\ UNCHANGED <<parentNode, children, state, pending, swapped,
                      backgroundFrame, frameSize, src>>]_vars

\* style was called on a disposed panel, whose content frame is null,
\* with the computed style at hand: it logged and inserted nothing
C15_Witness ==
  /\ last.op = "style" /\ last.arg = TRUE
  /\ disposed(last.panel) /\ state[last.panel] # "open"
  /\ last.ops = <<[kind |-> "logError"]>>
  /\ Inserted(styleNodes) = 0

\* a retry with the arguments X is outstanding
Outstanding(X) == \E i \in 1..Len(timers) : timers[i] = X

\* C18: dispose cancels no retry: it leaves the timer queue as it is, a
\* retry that is outstanding for a disposed panel still fires, and if the
\* popup API is available it then calls display and panel.openPopup on the
\* disposed panel, whose background frame is released.
C18_RetryOutlivesDispose ==
  /\ [][last'.op = "dispose" => timers' = timers]_vars
  /\ \A X \in LiveArgs :
       (disposed(X.panel) /\ Outstanding(X))
         ~> (/\ last.op = "retry" /\ last.arg = X
             /\ backgroundFrame[X.panel] = Null
             /\ openPopup[X.panel] =>
                  RetryDisplays(X) /\ HasKind(last.ops, "openPopup"))

\* a retry set before dispose fired after it and called display and
\* openPopup on the panel, which is disposed and in no document
C18_Witness ==
  /\ RetryDisplays(last.arg)
  /\ HasKind(last.ops, "openPopup")
  /\ disposed(last.panel)
  /\ parentNode[last.panel] = Null
  /\ state[last.panel] = "closed"

\* the arguments the call recorded in l hands to open
CallArgs(l) ==
  [panel |-> l.arg.panel, width |-> l.arg.width, height |-> l.arg.height,
   anchor |-> l.arg.anchor]

\* the steps of kind k among ops
StepsOf(ops, k) == {i \in 1..Len(ops) : ops[i].kind = k}

\* C19: a call of open or show sets one timer with its own arguments or
\* calls display once with them, never both; a timer that fires leaves the
\* queue and either sets one timer with the same arguments or calls display
\* once with them, never both; nothing else changes the queue.  So once the
\* popup API is there the k timers pending are served one by one, each by
\* one display with the arguments of its own call, until none is left.
C19_OneDisplayPerOpen ==
  /\ [][/\ last'.op \in {"open", "show"} =>
             /\ Cardinality(StepsOf(last'.ops, "setTimeout"))
                  + Cardinality(StepsOf(last'.ops, "display")) = 1
             /\ \A i \in StepsOf(last'.ops, "setTimeout") \cup
                         StepsOf(last'.ops, "display") :
                  last'.ops[i].args = CallArgs(last')
             /\ timers' = IF openPopup[last'.panel] THEN timers
                          ELSE Append(timers, CallArgs(last'))
             /\ openPopup[last'.panel] <=> StepsOf(last'.ops, "display") # {}
        /\ last'.op = "retry" =>
             /\ timers # <<>> /\ last'.arg = Head(timers)
             /\ Cardinality(StepsOf(last'.ops, "setTimeout"))
                  + Cardinality(StepsOf(last'.ops, "display")) = 1
             /\ \A i \in StepsOf(last'.ops, "setTimeout") \cup
                         StepsOf(last'.ops, "display") :
                  last'.ops[i].args = Head(timers)
             /\ timers' = IF openPopup[last'.panel] THEN Tail(timers)
                          ELSE Append(Tail(timers), Head(timers))
             /\ openPopup[last'.panel] <=> StepsOf(last'.ops, "display") # {}
        /\ last'.op \notin {"open", "show", "retry"} => timers' = timers]_vars
  /\ \A p \in {X.panel : X \in LiveArgs} :
       (openPopup[p] /\ timers # <<>>)
         ~> (timers = <<>> /\ RetryDisplays(last.arg))

\* two different calls were queued before the API was there; the timer of
\* the first has fired and displayed with the first call's arguments, the
\* timer of the second is still pending
C19_Witness ==
  /\ RetryDisplays(last.arg)
  /\ openPopup[last.panel]
  /\ Len(timers) = 1
  /\ timers[1] # last.arg
  /\ timers[1].panel = last.panel

=============================================================================
